---- MODULE Spec2Model ----
(***************************************************************************)
(* One chat turn of the persona chatbot (src/src/app.py): Me.chat drives   *)
(* the LLM tool loop, dispatches tool calls through handle_tool_calls,     *)
(* runs the evaluator and regenerates at most once.  The LLM, the          *)
(* evaluator and the notification endpoint are external: each of their     *)
(* answers is a nondeterministic choice.  Me keeps no mutable state        *)
(* between turns, so a behaviour is one call of chat on arbitrary inputs.  *)
(***************************************************************************)
EXTENDS Naturals, Sequences, FiniteSets, TLC

VARIABLES
    pc,          \* position of the turn inside chat
    message,     \* chat's argument: the new user message
    history,     \* chat's argument: the caller's history list
    messages,    \* chat's local working conversation
    response,    \* chat's local: the last completion returned by the LLM
    idx,         \* handle_tool_calls: position of the for loop in tool_calls
    results,     \* handle_tool_calls: its local results list
    evaluation,  \* chat's local: the Evaluation returned by evaluate
    reply,       \* chat's local: the candidate (then regenerated) reply
    retval,      \* what chat returned to its caller
    error,       \* the exception that left chat
    llmCalls,    \* chat.completions.create calls issued by the loop
    evalCalls,   \* beta.chat.completions.parse calls issued by evaluate
    rerunCalls,  \* chat.completions.create calls issued by rerun
    posts,       \* the notification POSTs issued, in order
    invoked,     \* the callables executed through tool dispatch, in order
    lastHttp,    \* how the notification endpoint answered the last POST
    finishes,    \* finish_reason of each completion the loop received, in order
    rerunResponse, \* rerun's local: the content of its completion
    evalMessages,  \* evaluate's local messages, as sent to the evaluator
    rerunMessages, \* rerun's local messages, as sent to the LLM
    rerunTools,    \* the tools rerun's completion call advertises
    table,         \* the rows of unanswered_questions, in insertion order
    idSeq,         \* the last identifier the store generated
    clock,         \* the store's time, the default of created_at
    openConns,     \* connections opened by QuestionDB and not closed
    dbLast,        \* the last QuestionDB operation: call, exit and events
    persona,       \* the Me instance: name, summary, linkedin
    running,       \* which of two chat calls on the instance is executing
    parked         \* the locals of the other chat call, not executing now

\* the state of one chat turn
turnVars == <<pc, message, history, messages, response, idx, results, evaluation,
              reply, retval, error, llmCalls, evalCalls, rerunCalls, posts,
              invoked, lastHttp, finishes, rerunResponse, evalMessages,
              rerunMessages, rerunTools>>

\* the state of the question store and of QuestionDB's connections
storeVars == <<table, idSeq, clock, openConns, dbLast>>

\* the Me instance and a second chat call on it
concVars == <<persona, running, parked>>

\* the state a chat turn does not touch
beyondTurn == <<storeVars, concVars>>

\* the state a QuestionDB operation does not touch
beyondStore == <<turnVars, concVars>>

vars == <<turnVars, beyondTurn>>

(***************************************************************************)
(* Bounds of the model.                                                    *)
(***************************************************************************)
\* tool rounds (completions with finish_reason "tool_calls") kept per turn
MaxRounds == 2
\* ToolInvocations requested per turn, over all its rounds
MaxInvocations == 2

(***************************************************************************)
(* Values.                                                                 *)
(***************************************************************************)
NoId == "no_tool_call_id"
NoContent == "None"
NoReply == "NO_REPLY"
NoError == "no_error"
NoResponse == [finish_reason |-> "none", content |-> NoContent, tool_calls |-> <<>>]
NoEvaluation == [is_acceptable |-> TRUE, feedback |-> "none", present |-> FALSE]

\* a conversation entry: role and content, for an assistant tool-call message
\* its tool_calls, for a tool entry the tool_call_id it answers
Msg(role, content) ==
    [role |-> role, content |-> content, tool_calls |-> <<>>, tool_call_id |-> NoId]

Messages == {"Hello", "My email is test@example.com"}
Histories ==
    { <<>>,
      << Msg("user", "Previous message"), Msg("assistant", "Previous reply") >> }
Contents == {"Reply", "Better response"}
Feedbacks == {"Needs improvement"}
StopReasons == {"stop", "length"}
HttpOutcomes == {"2xx", "non2xx", "transport_error"}

\* argument payloads the LLM can put in a ToolInvocation
ArgsEmail == "{\"email\": \"test@example.com\"}"
ArgsQuestion == "{\"question\": \"Test?\"}"
ArgsText == "{\"text\": \"hi\"}"
ArgsEmpty == "{}"
ArgsMalformed == "not valid json"

ToolCall(id, name, arguments) == [id |-> id, name |-> name, arguments |-> arguments]

\* the ToolInvocations the LLM draws from
ToolCallPool ==
    { ToolCall("call_1", "record_user_details", ArgsEmail),
      ToolCall("call_2", "record_unknown_question", ArgsQuestion),
      ToolCall("call_789", "nonexistent_tool", ArgsEmpty),
      ToolCall("call_123", "record_user_details", ArgsMalformed),
      ToolCall("call_456", "nonexistent_tool", ArgsMalformed),
      ToolCall("call_5", "push", ArgsText),
      ToolCall("call_6", "tools", ArgsEmpty) }

\* the batches of at most n ToolInvocations
Batches(n) == UNION { [1..k -> ToolCallPool] : k \in 0..n }

(***************************************************************************)
(* json.loads and json.dumps on the values that occur.                     *)
(***************************************************************************)
\* a decoder that accepts any text
json_valid_Lenient(s) == TRUE

\* json.loads raises JSONDecodeError on text that is not JSON
json_valid(s) == s \in {ArgsEmail, ArgsQuestion, ArgsText, ArgsEmpty}

json_loads(s) ==
    CASE s = ArgsEmail -> [email |-> "test@example.com"]
      [] s = ArgsQuestion -> [question |-> "Test?"]
      [] s = ArgsText -> [text |-> "hi"]
      [] OTHER -> [k \in {} |-> ""]

\* Python results of the dispatched callables
PyEmptyDict == "dict()"
PyStatusSuccess == "dict(status='success')"
PyNone == "NoneObject"

json_dumps(v) ==
    CASE v = PyEmptyDict -> "{}"
      [] v = PyStatusSuccess -> "{\"status\": \"success\"}"
      [] OTHER -> "null"

(***************************************************************************)
(* The module namespace that globals() returns, as far as dispatch sees    *)
(* it: the names bound to functions and one name bound to a list.          *)
(***************************************************************************)
ModuleFunctions == {"push", "record_user_details", "record_unknown_question"}
ModuleGlobals == ModuleFunctions \cup {"tools"}

\* the tools the chatbot advertises to the LLM
tools == {"record_user_details", "record_unknown_question"}

\* globals().get(tool_name): the object bound to the name, or None
globals_get(tool_name) == IF tool_name \in ModuleGlobals THEN tool_name ELSE PyNone

\* truth value of the looked-up object in "tool(**arguments) if tool else {}"
Truthy(obj) == obj # PyNone

Callable(obj) == obj \in ModuleFunctions

\* parameters of the functions: required ones, and those with defaults
Required(f) ==
    CASE f = "record_user_details" -> {"email"}
      [] f = "record_unknown_question" -> {"question"}
      [] OTHER -> {"text"}

Defaults(f) ==
    CASE f = "record_user_details" ->
            [name |-> "Name not provided", notes |-> "not provided"]
      [] OTHER -> [k \in {} |-> ""]

\* f(**arguments) binds: every required parameter given, no unknown keyword
Binds(f, arguments) ==
    /\ Required(f) \subseteq DOMAIN arguments
    /\ DOMAIN arguments \subseteq (Required(f) \cup DOMAIN Defaults(f))

Arg(f, arguments, k) == IF k \in DOMAIN arguments THEN arguments[k] ELSE Defaults(f)[k]

(***************************************************************************)
(* push, record_user_details, record_unknown_question.                     *)
(***************************************************************************)
\* push posting the text twice
push_Twice(text) == << text, text >>

\* the POSTs push(text) issues
push(text) == << text >>

\* requests.post raises on a transport error and returns the response
\* otherwise, whatever its status: push does not look at it
push_raises(http) == http = "transport_error"

\* the text each function hands to push (the pieces of its f-string)
NotificationText(f, arguments) ==
    CASE f = "record_user_details" ->
            << "Recording interest from ", Arg(f, arguments, "name"),
               " with email ", Arg(f, arguments, "email"),
               " and notes ", Arg(f, arguments, "notes") >>
      [] f = "record_unknown_question" ->
            << arguments["question"], " it appears I don't know how to answer that" >>
      [] OTHER -> << arguments["text"] >>

\* the value each function returns
ReturnValue(f) == IF f = "push" THEN PyNone ELSE PyStatusSuccess

\* ToolEntry without the correlation identifier
ToolEntry_NoId(result, tool_call) ==
    [role |-> "tool", content |-> json_dumps(result), tool_calls |-> <<>>,
     tool_call_id |-> NoId]

\* the entry handle_tool_calls appends to results for one tool call
ToolEntry(result, tool_call) ==
    [role |-> "tool", content |-> json_dumps(result), tool_calls |-> <<>>,
     tool_call_id |-> tool_call.id]

(***************************************************************************)
(* The working conversation.                                               *)
(***************************************************************************)
system_prompt == "system_prompt"

\* chat's initial messages list
InitialMessages(m, h) == << Msg("system", system_prompt) >> \o h \o << Msg("user", m) >>

BaseLen == Len(history) + 2

\* positions of the assistant tool-call messages appended by the loop
RoundStarts == { i \in (BaseLen + 1)..Len(messages) : messages[i].role = "assistant" }

Rounds == Cardinality(RoundStarts)

RECURSIVE SumLen(_, _)
SumLen(S, seq) ==
    IF S = {} THEN 0
    ELSE LET i == CHOOSE j \in S : TRUE
         IN Len(seq[i].tool_calls) + SumLen(S \ {i}, seq)

\* ToolInvocations requested in the completed rounds
Requested == SumLen(RoundStarts, messages)

\* the assistant message object of a completion
MessageObj(resp) ==
    [role |-> "assistant", content |-> resp.content, tool_calls |-> resp.tool_calls,
     tool_call_id |-> NoId]

\* lines 99-111: what __init__ stores on the instance
Persona == [name |-> "Michael Di Giatnomasso", summary |-> "summary.txt",
            linkedin |-> "profile_summary.pdf"]

\* no completion call of rerun has been issued
NoRequest == {"no_request"}

\* the locals of a chat call that has not started
IdleLocals ==
    [pc |-> "idle", message |-> "", history |-> <<>>, messages |-> <<>>,
     response |-> NoResponse, idx |-> 0, results |-> <<>>,
     evaluation |-> NoEvaluation, reply |-> NoReply, retval |-> NoReply,
     error |-> NoError, llmCalls |-> 0, evalCalls |-> 0, rerunCalls |-> 0,
     posts |-> <<>>, invoked |-> <<>>, lastHttp |-> "none", finishes |-> <<>>,
     rerunResponse |-> NoContent, evalMessages |-> <<>>, rerunMessages |-> <<>>,
     rerunTools |-> NoRequest]

\* no QuestionDB operation has run yet
NoOperation == [op |-> "none", args |-> <<>>, raised |-> NoError, ret |-> <<>>,
                events |-> <<>>]

(***************************************************************************)
(* State after Me.__init__ and QuestionDB.__init__: no turn is running,    *)
(* the table is empty, no connection is open.                              *)
(***************************************************************************)
Init ==
    /\ pc = "idle"
    /\ message = ""
    /\ history = <<>>
    /\ messages = <<>>
    /\ response = NoResponse
    /\ idx = 0
    /\ results = <<>>
    /\ evaluation = NoEvaluation
    /\ reply = NoReply
    /\ retval = NoReply
    /\ error = NoError
    /\ llmCalls = 0
    /\ evalCalls = 0
    /\ rerunCalls = 0
    /\ posts = <<>>
    /\ invoked = <<>>
    /\ lastHttp = "none"
    /\ finishes = <<>>
    /\ rerunResponse = NoContent
    /\ evalMessages = <<>>
    /\ rerunMessages = <<>>
    /\ rerunTools = NoRequest
    /\ table = <<>>
    /\ idSeq = 0
    /\ clock = 1
    /\ openConns = 0
    /\ dbLast = NoOperation
    /\ persona = Persona
    /\ running = 1
    /\ parked = IdleLocals

(***************************************************************************)
(* chat, lines 197-204: the call, the working conversation, the loop entry.*)
(***************************************************************************)
chat(m, h) ==
    /\ pc = "idle"
    /\ message' = m
    /\ history' = h
    /\ messages' = InitialMessages(m, h)
    /\ pc' = "llm"
    /\ UNCHANGED <<response, idx, results, evaluation, reply, retval, error,
                   llmCalls, evalCalls, rerunCalls, posts, invoked, lastHttp,
                   finishes, rerunResponse>>
    /\ UNCHANGED <<evalMessages, rerunMessages, rerunTools>>
    /\ UNCHANGED beyondTurn

(***************************************************************************)
(* chat, lines 206-223: one completion of the loop.                        *)
(***************************************************************************)
\* LLMStop that leaves done False: the loop calls the LLM again
LLMStop_NotDone(content, reason) ==
    /\ pc = "llm"
    /\ response' = [finish_reason |-> reason, content |-> content, tool_calls |-> <<>>]
    /\ reply' = content
    /\ pc' = "llm"
    /\ UNCHANGED <<message, history, messages, idx, results, evaluation, retval,
                   error, llmCalls, evalCalls, rerunCalls, posts, invoked, lastHttp,
                   finishes, rerunResponse>>
    /\ UNCHANGED <<evalMessages, rerunMessages, rerunTools>>
    /\ UNCHANGED beyondTurn

\* the completion does not ask for tools: done = True, reply is its content
LLMStop(content, reason) ==
    /\ pc = "llm"
    /\ llmCalls' = llmCalls + 1
    /\ response' = [finish_reason |-> reason, content |-> content, tool_calls |-> <<>>]
    /\ finishes' = Append(finishes, reason)
    /\ reply' = content
    /\ pc' = "evaluate"
    /\ UNCHANGED <<message, history, messages, idx, results, evaluation, retval,
                   error, evalCalls, rerunCalls, posts, invoked, lastHttp,
                   rerunResponse>>
    /\ UNCHANGED <<evalMessages, rerunMessages, rerunTools>>
    /\ UNCHANGED beyondTurn

\* HistoryAfterAppend when messages is the caller's list itself
\* ("messages = history" and insertions instead of line 200's "+")
HistoryAfterAppend_SameList(h, appended) == h \o appended

\* the caller's history list after messages.append / messages.extend
\* (lines 216-217): messages is the new list that "+" built at line 200,
\* the caller's list is another object and keeps its entries
HistoryAfterAppend(h, appended) == h

\* the completion asks for tools: handle_tool_calls starts on its tool_calls
\* (with none requested it returns [] at once and the message is appended)
LLMToolCalls(batch) ==
    /\ pc = "llm"
    /\ Rounds < MaxRounds
    /\ llmCalls' = llmCalls + 1
    /\ response' = [finish_reason |-> "tool_calls", content |-> NoContent,
                    tool_calls |-> batch]
    /\ results' = <<>>
    /\ IF batch = <<>>
       THEN /\ messages' = Append(messages, MessageObj(response'))
            /\ idx' = 0
            /\ pc' = "llm"
       ELSE /\ messages' = messages
            /\ idx' = 1
            /\ pc' = "tools"
    /\ history' = IF batch = <<>>
                  THEN HistoryAfterAppend(history, << MessageObj(response') >>)
                  ELSE history
    /\ finishes' = Append(finishes, "tool_calls")
    /\ UNCHANGED <<message, evaluation, reply, retval, error, evalCalls,
                   rerunCalls, posts, invoked, lastHttp, rerunResponse>>
    /\ UNCHANGED <<evalMessages, rerunMessages, rerunTools>>
    /\ UNCHANGED beyondTurn

\* a failed completion call caught inside the loop, which then calls again
LLMFail_Retried ==
    /\ pc = "llm"
    /\ llmCalls' = llmCalls + 1
    /\ pc' = "llm"
    /\ error' = "APIError"
    /\ UNCHANGED <<message, history, messages, response, idx, results, evaluation,
                   reply, retval, evalCalls, rerunCalls, posts, invoked, lastHttp,
                   finishes, rerunResponse>>
    /\ UNCHANGED <<evalMessages, rerunMessages, rerunTools>>
    /\ UNCHANGED beyondTurn

\* the completion call raises: nothing in chat catches it
LLMFail ==
    /\ pc = "llm"
    /\ llmCalls' = llmCalls + 1
    /\ pc' = "raised"
    /\ error' = "APIError"
    /\ UNCHANGED <<message, history, messages, response, idx, results, evaluation,
                   reply, retval, evalCalls, rerunCalls, posts, invoked, lastHttp,
                   finishes, rerunResponse>>
    /\ UNCHANGED <<evalMessages, rerunMessages, rerunTools>>
    /\ UNCHANGED beyondTurn

(***************************************************************************)
(* handle_tool_calls, lines 116-127: one iteration of its for loop.        *)
(***************************************************************************)
Outcome(raises, sent, called, result) ==
    [raises |-> raises, posts |-> sent, invoked |-> called, result |-> result]

\* tool(**arguments) for a function of the module: the notification, then
\* the function's return value
Call(f, arguments, http) ==
    Outcome(IF push_raises(http) THEN "ConnectionError" ELSE NoError,
            push(NotificationText(f, arguments)), << f >>, ReturnValue(f))

\* lines 118-124 for one tool call: decode, look up, call
Dispatch(tool_call, http) ==
    LET tool_name == tool_call.name
        arguments == json_loads(tool_call.arguments)
        tool == globals_get(tool_name)
    IN  IF ~json_valid(tool_call.arguments)
        THEN Outcome("JSONDecodeError", <<>>, <<>>, PyNone)
        ELSE IF ~Truthy(tool)
        THEN Outcome(NoError, <<>>, <<>>, PyEmptyDict)
        ELSE IF ~Callable(tool) \/ ~Binds(tool, arguments)
        THEN Outcome("TypeError", <<>>, <<>>, PyNone)
        ELSE Call(tool, arguments, http)

\* MessagesOnRaise when chat appends message_obj before it calls
\* handle_tool_calls
MessagesOnRaise_AppendedFirst(msgs, resp) == Append(msgs, MessageObj(resp))

\* lines 214-217 when handle_tool_calls raises: the exception leaves chat
\* at line 214, before messages.append and messages.extend
MessagesOnRaise(msgs, resp) == msgs

\* AppendRound that extends with the results before it appends the message
AppendRound_ResultsFirst(msgs, resp, res) == (msgs \o res) \o << MessageObj(resp) >>

\* chat lines 216-217: the assistant message, then the round's results
AppendRound(msgs, resp, res) == Append(msgs, MessageObj(resp)) \o res

HandleToolCall(http) ==
    /\ pc = "tools"
    /\ LET tool_call == response.tool_calls[idx]
           out == Dispatch(tool_call, http)
           newResults == Append(results, ToolEntry(out.result, tool_call))
       IN  /\ posts' = posts \o out.posts
           /\ invoked' = invoked \o out.invoked
           /\ lastHttp' = IF out.posts # <<>> THEN http ELSE lastHttp
           /\ IF out.raises # NoError
              THEN \* the exception leaves handle_tool_calls and chat
                   /\ pc' = "raised"
                   /\ error' = out.raises
                   /\ results' = <<>>
                   /\ messages' = MessagesOnRaise(messages, response)
                   /\ UNCHANGED idx
              ELSE IF idx < Len(response.tool_calls)
              THEN /\ pc' = "tools"
                   /\ results' = newResults
                   /\ idx' = idx + 1
                   /\ UNCHANGED <<messages, error>>
              ELSE \* return results; chat appends and loops
                   /\ pc' = "llm"
                   /\ messages' = AppendRound(messages, response, newResults)
                   /\ results' = <<>>
                   /\ idx' = 0
                   /\ UNCHANGED error
           /\ history' = IF out.raises = NoError /\ idx = Len(response.tool_calls)
                         THEN HistoryAfterAppend(history,
                                 << MessageObj(response) >> \o newResults)
                         ELSE history
    /\ UNCHANGED <<message, response, evaluation, reply, retval,
                   llmCalls, evalCalls, rerunCalls, finishes, rerunResponse>>
    /\ UNCHANGED <<evalMessages, rerunMessages, rerunTools>>
    /\ UNCHANGED beyondTurn

(***************************************************************************)
(* chat, lines 226-233: evaluation, and the regeneration it may ask for.   *)
(***************************************************************************)
\* NeedsRerun taking the rejection branch whatever the verdict
NeedsRerun_Always(ev) == TRUE

\* line 227: "if not evaluation.is_acceptable"
NeedsRerun(ev) == ~ev.is_acceptable

\* HistoryArg that hands over the working conversation built by the loop
HistoryArg_Working == SubSeq(messages, 2, Len(messages))

\* lines 226 and 231: the history chat passes on is its own argument
HistoryArg == history

\* lines 162-169: the evaluator's user prompt, as the fragments of its
\* f-strings and the values substituted into them
evaluator_user_prompt(r, m, h) ==
    << "Here's the conversation between the User and the Agent:", h,
       "Here's the latest message from the User:", m,
       "Here's the latest response from the Agent:", r >>

\* lines 174-175: the messages evaluate sends
EvaluateMessages(r, m, h) ==
    << Msg("system", "evaluator_system_prompt"),
       Msg("user", evaluator_user_prompt(r, m, h)) >>

\* lines 188-190: the system prompt extended with the rejected reply and
\* the evaluator's feedback
updated_system_prompt(r, feedback) ==
    << system_prompt, "## Your attempted answer:", r,
       "## Reason for rejection:", feedback >>

\* RerunMessages that carries the turn's working conversation on
RerunMessages_Working(r, m, h, feedback) ==
    << Msg("system", updated_system_prompt(r, feedback)) >>
        \o SubSeq(messages, 2, Len(messages))

\* rerun advertising the module's tools as the loop does (tools=tools)
RerunTools_Advertised == tools

\* line 194: create(model=..., messages=messages), no tools argument
RerunTools == {}

\* line 193: the messages rerun sends
RerunMessages(r, m, h, feedback) ==
    << Msg("system", updated_system_prompt(r, feedback)) >> \o h
        \o << Msg("user", m) >>

evaluate(acceptable, feedback) ==
    /\ pc = "evaluate"
    /\ evalMessages' = EvaluateMessages(reply, message, HistoryArg)
    /\ evalCalls' = evalCalls + 1
    /\ evaluation' = [is_acceptable |-> acceptable, feedback |-> feedback,
                      present |-> TRUE]
    /\ IF NeedsRerun(evaluation')
       THEN pc' = "rerun" /\ retval' = retval
       ELSE pc' = "returned" /\ retval' = reply
    /\ UNCHANGED <<message, history, messages, response, idx, results, reply,
                   error, llmCalls, rerunCalls, posts, invoked, lastHttp,
                   finishes, rerunResponse>>
    /\ UNCHANGED <<rerunMessages, rerunTools>>
    /\ UNCHANGED beyondTurn

\* the evaluator call raises
EvaluateFail ==
    /\ pc = "evaluate"
    /\ evalMessages' = EvaluateMessages(reply, message, HistoryArg)
    /\ evalCalls' = evalCalls + 1
    /\ pc' = "raised"
    /\ error' = "APIError"
    /\ UNCHANGED <<message, history, messages, response, idx, results, evaluation,
                   reply, retval, llmCalls, rerunCalls, posts, invoked, lastHttp,
                   finishes, rerunResponse>>
    /\ UNCHANGED <<rerunMessages, rerunTools>>
    /\ UNCHANGED beyondTurn

\* rerun whose result is handed back to the evaluator instead of returned
rerun_Reevaluated(content) ==
    /\ pc = "rerun"
    /\ rerunMessages' = RerunMessages(reply, message, HistoryArg,
                                      evaluation.feedback)
    /\ rerunTools' = RerunTools
    /\ rerunCalls' = rerunCalls + 1
    /\ rerunResponse' = content
    /\ reply' = rerunResponse'
    /\ pc' = "evaluate"
    /\ UNCHANGED <<message, history, messages, response, idx, results, evaluation,
                   retval, error, llmCalls, evalCalls, posts, invoked, lastHttp,
                   finishes>>
    /\ UNCHANGED evalMessages
    /\ UNCHANGED beyondTurn

\* rerun's completion: its content is the reply chat returns
rerun(content) ==
    /\ pc = "rerun"
    /\ rerunMessages' = RerunMessages(reply, message, HistoryArg,
                                      evaluation.feedback)
    /\ rerunTools' = RerunTools
    /\ rerunCalls' = rerunCalls + 1
    /\ rerunResponse' = content
    /\ reply' = rerunResponse'
    /\ retval' = reply'
    /\ pc' = "returned"
    /\ UNCHANGED <<message, history, messages, response, idx, results, evaluation,
                   error, llmCalls, evalCalls, posts, invoked, lastHttp, finishes>>
    /\ UNCHANGED evalMessages
    /\ UNCHANGED beyondTurn

\* rerun's completion call raises
RerunFail ==
    /\ pc = "rerun"
    /\ rerunMessages' = RerunMessages(reply, message, HistoryArg,
                                      evaluation.feedback)
    /\ rerunTools' = RerunTools
    /\ rerunCalls' = rerunCalls + 1
    /\ pc' = "raised"
    /\ error' = "APIError"
    /\ UNCHANGED <<message, history, messages, response, idx, results, evaluation,
                   reply, retval, llmCalls, evalCalls, posts, invoked, lastHttp,
                   finishes, rerunResponse>>
    /\ UNCHANGED evalMessages
    /\ UNCHANGED beyondTurn

\* the steps of a turn that is under way
TurnStep ==
    \/ \E c \in Contents, r \in StopReasons : LLMStop(c, r)
    \/ \E b \in Batches(MaxInvocations - Requested) : LLMToolCalls(b)
    \/ LLMFail
    \/ \E http \in HttpOutcomes : HandleToolCall(http)
    \/ \E a \in BOOLEAN, f \in Feedbacks : evaluate(a, f)
    \/ EvaluateFail
    \/ \E c \in Contents : rerun(c)
    \/ RerunFail

Next ==
    \/ \E m \in Messages, h \in Histories : chat(m, h)
    \/ TurnStep

Spec == Init /\ [][Next]_vars

(***************************************************************************)
(* The turn as a running program.  The loop of chat has no bound on its    *)
(* rounds, MaxRounds bounds only how many the model records: a round asked *)
(* for once MaxRounds are recorded is executed and folded, it leaves the   *)
(* recorded conversation and the counters as they are.  Folded rounds ask  *)
(* for a tool that sends no notification.  Fairness: the interpreter runs  *)
(* the turn's next statement and every external call is answered.          *)
(***************************************************************************)
FoldedBatches == { << ToolCall("call_789", "nonexistent_tool", ArgsEmpty) >> }

\* lines 206-214 in a folded round: the completion asks for tools again
LLMToolCallsFolded(batch) ==
    /\ pc = "llm"
    /\ Rounds = MaxRounds
    /\ response' = [finish_reason |-> "tool_calls", content |-> NoContent,
                    tool_calls |-> batch]
    /\ results' = <<>>
    /\ idx' = 1
    /\ pc' = "tools_folded"
    /\ UNCHANGED <<message, history, messages, evaluation, reply, retval, error,
                   llmCalls, evalCalls, rerunCalls, posts, invoked, lastHttp,
                   finishes, rerunResponse>>
    /\ UNCHANGED <<evalMessages, rerunMessages, rerunTools>>
    /\ UNCHANGED beyondTurn

\* lines 116-128 and 216-217 in a folded round: the call is dispatched and
\* the loop goes on
HandleToolCallFolded ==
    /\ pc = "tools_folded"
    /\ Dispatch(response.tool_calls[idx], "2xx").raises = NoError
    /\ pc' = "llm"
    /\ idx' = 0
    /\ UNCHANGED <<message, history, messages, response, results, evaluation, reply,
                   retval, error, llmCalls, evalCalls, rerunCalls, posts, invoked,
                   lastHttp, finishes, rerunResponse>>
    /\ UNCHANGED <<evalMessages, rerunMessages, rerunTools>>
    /\ UNCHANGED beyondTurn

LiveNext ==
    \/ \E h \in Histories : chat("Hello", h)
    \/ TurnStep
    \/ \E b \in FoldedBatches : LLMToolCallsFolded(b)
    \/ HandleToolCallFolded

LiveSpec == Init /\ [][LiveNext]_vars /\ WF_vars(LiveNext)

(***************************************************************************)
(* QuestionDB (database/question_db.py): one table, one connection and one *)
(* statement per operation.                                                *)
(***************************************************************************)
\* add_question calls the model makes (identifiers 1..MaxAdds)
MaxAdds == 3
\* the creation times of the model: two questions can be created at the
\* same time or one after the other
Times == {1, 2}

\* SQL NULL, Python None as a column value or a parameter
NULL == "NULL"
QuestionTexts == {"Q1"}
Categories == {"A", "B"}
Askers == {NULL}
NoteTexts == {"answered by mail"}

\* where an operation can fail: opening the connection, executing the
\* statement, committing
ReadFaults == {"none", "connect", "execute"}
WriteFaults == ReadFaults \cup {"commit"}

Row(id, q, c, a, n, ts) ==
    [id |-> id, question_text |-> q, category |-> c, asked_by |-> a,
     notes |-> n, created_at |-> ts]

\* the table's id column generates the next identifier
NextIdentity(last) == last + 1

\* the table's created_at column defaults to the store's current time
CreatedAtDefault(now) == {now, now + 1} \cap Times

Ids(tbl) == { tbl[i].id : i \in 1..Len(tbl) }

\* a WHERE comparison with "=": true only when neither side is NULL
SqlEq(a, b) == a # NULL /\ b # NULL /\ a = b

\* the sequences that hold each element of S once
Arrangements(S) ==
    { s \in [1..Cardinality(S) -> S] :
        \A i, j \in 1..Cardinality(S) : i # j => s[i] # s[j] }

\* "finally" that closes the connection only when the body succeeded
Finally_OnSuccessOnly(fault) == IF fault = "none" THEN << "close" >> ELSE <<>>

\* lines 65-66 (and 83-84, 105-106, 127-128, 151-152, 177-178, 197-198):
\* "finally: conn.close()"
Finally(fault) == << "close" >>

\* what an operation does with its connection, in order, up to its exit:
\* conn = self._get_connection(), the body of try, finally, the exit
Events(fault, commits) ==
    IF fault = "connect"
    THEN << "connect_failed", "raise" >>
    ELSE << "connect" >>
         \o (IF fault = "execute" THEN << "execute_failed" >>
             ELSE IF ~commits THEN << "execute" >>
             ELSE IF fault = "commit" THEN << "execute", "commit_failed" >>
             ELSE << "execute", "commit" >>)
         \o Finally(fault)
         \o (IF fault = "none" THEN << "return" >> ELSE << "raise" >>)

Occurrences(ev, e) == Cardinality({ i \in 1..Len(ev) : ev[i] = e })

Raised(fault) ==
    IF fault = "none" THEN NoError
    ELSE IF fault = "connect" THEN "OperationalError" ELSE "DatabaseError"

\* the exit of an operation: its record and the connections left open
Exit(op, args, fault, commits, ret) ==
    LET ev == Events(fault, commits)
    IN  /\ dbLast' = [op |-> op, args |-> args, raised |-> Raised(fault),
                      ret |-> IF fault = "none" THEN ret ELSE <<>>,
                      events |-> ev]
        /\ openConns' = openConns + Occurrences(ev, "connect")
                                  - Occurrences(ev, "close")

\* cur.fetchone(): the first row of the result set, None (<<>>) without one
fetchone(rs) == IF rs = <<>> THEN <<>> ELSE << rs[1] >>

\* "result is not None" that is true of any result
NotNone_Always(result) == TRUE

\* lines 150 and 176: "result is not None"
NotNone(result) == result # <<>>

\* add_question returning cur.rowcount
AddReturn_RowCount(row) == 1

\* lines 60-64: RETURNING id, question_id = cur.fetchone()[0]
AddReturn(row) == row.id

\* lines 54-66
add_question(question_text, category, asked_by, notes, fault) ==
    /\ idSeq < MaxAdds
    /\ \E ts \in CreatedAtDefault(clock), burnt \in BOOLEAN :
         LET id == NextIdentity(idSeq)
             row == Row(id, question_text, category, asked_by, notes, ts)
         IN  /\ table' = IF fault = "none" THEN Append(table, row) ELSE table
             /\ clock' = IF fault = "none" THEN ts ELSE clock
             \* a statement that got as far as generating the identifier
             \* has used it up, also when the insert is then rolled back
             /\ idSeq' = IF fault = "none" \/ fault = "commit" THEN id
                         ELSE IF fault = "execute" /\ burnt THEN id
                         ELSE idSeq
             /\ Exit("add_question",
                     << question_text, category, asked_by, notes >>, fault,
                     TRUE, AddReturn(row))
    /\ UNCHANGED beyondStore

NewestFirst_Ascending(a, b) == a.created_at <= b.created_at

\* "ORDER BY created_at DESC" (lines 80, 102, 124)
NewestFirst(a, b) == a.created_at >= b.created_at

\* the result sets SELECT ... ORDER BY created_at DESC can deliver for the
\* rows S: rows created at the same time come in any order
SelectNewestFirst(S) ==
    { s \in Arrangements(S) :
        \A i, j \in 1..Cardinality(S) : i < j => NewestFirst(s[i], s[j]) }

Rows(tbl) == { tbl[i] : i \in 1..Len(tbl) }

\* lines 75-84
get_all_questions(fault) ==
    /\ \E rs \in SelectNewestFirst(Rows(table)) :
         Exit("get_all_questions", <<>>, fault, FALSE, rs)
    /\ UNCHANGED <<table, idSeq, clock>>
    /\ UNCHANGED beyondStore

\* lines 118-128
get_by_category(category, fault) ==
    /\ \E rs \in SelectNewestFirst({ r \in Rows(table) :
                                        SqlEq(r.category, category) }) :
         Exit("get_by_category", << category >>, fault, FALSE, rs)
    /\ UNCHANGED <<table, idSeq, clock>>
    /\ UNCHANGED beyondStore

\* "WHERE id = %s" (lines 145, 171)
WhereId(row, question_id) == row.id = question_id

\* the rows a statement with WHERE id = question_id acts on, as RETURNING id
\* gives them back
Returning(tbl, question_id) ==
    LET hit == SelectSeq(tbl, LAMBDA r : WhereId(r, question_id))
    IN  [ i \in 1..Len(hit) |-> hit[i].id ]

\* lines 140-152
delete_question(question_id, fault) ==
    /\ LET result == fetchone(Returning(table, question_id))
       IN  /\ table' = IF fault = "none"
                       THEN SelectSeq(table, LAMBDA r : ~WhereId(r, question_id))
                       ELSE table
           /\ Exit("delete_question", << question_id >>, fault, TRUE,
                   NotNone(result))
    /\ UNCHANGED <<idSeq, clock>>
    /\ UNCHANGED beyondStore

\* update_notes without its WHERE clause
UpdateTarget_EveryRow(row, question_id) == TRUE

\* lines 169-171: the rows UPDATE ... WHERE id = %s changes
UpdateTarget(row, question_id) == WhereId(row, question_id)

\* lines 165-178
update_notes(question_id, notes, fault) ==
    /\ LET result == fetchone(Returning(table, question_id))
       IN  /\ table' = IF fault = "none"
                       THEN [ i \in 1..Len(table) |->
                                IF UpdateTarget(table[i], question_id)
                                THEN [table[i] EXCEPT !.notes = notes]
                                ELSE table[i] ]
                       ELSE table
           /\ Exit("update_notes", << question_id, notes >>, fault, TRUE,
                   NotNone(result))
    /\ UNCHANGED <<idSeq, clock>>
    /\ UNCHANGED beyondStore

\* COUNT(category), which leaves out the rows whose category is NULL
CountStar_Column(tbl, category) ==
    Cardinality({ i \in 1..Len(tbl) :
                    tbl[i].category = category /\ category # NULL })

\* line 191: COUNT(*) of the group of a category (GROUP BY puts the rows
\* with no category in one group)
CountStar(tbl, category) ==
    Cardinality({ i \in 1..Len(tbl) : tbl[i].category = category })

\* "ORDER BY count DESC" (line 194)
LargestFirst(a, b) == a.count >= b.count

\* the result sets ... ORDER BY count DESC can deliver for the groups S
SelectLargestFirst(S) ==
    { s \in Arrangements(S) :
        \A i, j \in 1..Cardinality(S) : i < j => LargestFirst(s[i], s[j]) }

\* lines 187-198
get_category_stats(fault) ==
    /\ LET groups == { [category |-> c, count |-> CountStar(table, c)] :
                          c \in { r.category : r \in Rows(table) } }
       IN  \E rs \in SelectLargestFirst(groups) :
             Exit("get_category_stats", <<>>, fault, FALSE, rs)
    /\ UNCHANGED <<table, idSeq, clock>>
    /\ UNCHANGED beyondStore

\* QuestionDB under failures: every operation, with every place it can fail
\* at, on questions of one category
DbNext ==
    \/ \E q \in QuestionTexts, a \in Askers, f \in WriteFaults :
          add_question(q, "A", a, NULL, f)
    \/ \E f \in ReadFaults : get_all_questions(f)
    \/ \E f \in ReadFaults : get_by_category("A", f)
    \/ \E id \in 1..MaxAdds, f \in WriteFaults : delete_question(id, f)
    \/ \E id \in 1..MaxAdds, n \in NoteTexts, f \in WriteFaults :
          update_notes(id, n, f)
    \/ \E f \in ReadFaults : get_category_stats(f)

DbSpec == Init /\ [][DbNext]_vars

\* QuestionDB's queries over questions of several categories and of none,
\* the store answering every statement
QueryNext ==
    \/ \E q \in QuestionTexts, c \in Categories \cup {NULL}, a \in Askers :
          add_question(q, c, a, NULL, "none")
    \/ get_all_questions("none")
    \/ \E c \in Categories \cup {NULL} : get_by_category(c, "none")
    \/ \E id \in 1..MaxAdds : delete_question(id, "none")
    \/ get_category_stats("none")

QuerySpec == Init /\ [][QueryNext]_vars

(***************************************************************************)
(* Two chat calls on one Me instance, interleaved statement by statement   *)
(* (Gradio serves each user's call on its own thread).  The variables of   *)
(* the turn are the locals of the call that executes; the locals of the    *)
(* other call wait in parked.                                              *)
(***************************************************************************)
\* the locals of the executing call
Locals ==
    [pc |-> pc, message |-> message, history |-> history, messages |-> messages,
     response |-> response, idx |-> idx, results |-> results,
     evaluation |-> evaluation, reply |-> reply, retval |-> retval,
     error |-> error, llmCalls |-> llmCalls, evalCalls |-> evalCalls,
     rerunCalls |-> rerunCalls, posts |-> posts, invoked |-> invoked,
     lastHttp |-> lastHttp, finishes |-> finishes,
     rerunResponse |-> rerunResponse, evalMessages |-> evalMessages,
     rerunMessages |-> rerunMessages, rerunTools |-> rerunTools]

\* Resume with reply kept on the instance (self.reply): the call that
\* resumes finds the reply the other call left
Resume_ReplyOnSelf(frame) ==
    /\ pc' = frame.pc
    /\ message' = frame.message
    /\ history' = frame.history
    /\ messages' = frame.messages
    /\ response' = frame.response
    /\ idx' = frame.idx
    /\ results' = frame.results
    /\ evaluation' = frame.evaluation
    /\ reply' = reply
    /\ retval' = frame.retval
    /\ error' = frame.error
    /\ llmCalls' = frame.llmCalls
    /\ evalCalls' = frame.evalCalls
    /\ rerunCalls' = frame.rerunCalls
    /\ posts' = frame.posts
    /\ invoked' = frame.invoked
    /\ lastHttp' = frame.lastHttp
    /\ finishes' = frame.finishes
    /\ rerunResponse' = frame.rerunResponse
    /\ evalMessages' = frame.evalMessages
    /\ rerunMessages' = frame.rerunMessages
    /\ rerunTools' = frame.rerunTools

\* a call resumes with its own locals: everything chat, handle_tool_calls,
\* evaluate and rerun assign is a local name of the call (lines 197-233)
Resume(frame) ==
    /\ pc' = frame.pc
    /\ message' = frame.message
    /\ history' = frame.history
    /\ messages' = frame.messages
    /\ response' = frame.response
    /\ idx' = frame.idx
    /\ results' = frame.results
    /\ evaluation' = frame.evaluation
    /\ reply' = frame.reply
    /\ retval' = frame.retval
    /\ error' = frame.error
    /\ llmCalls' = frame.llmCalls
    /\ evalCalls' = frame.evalCalls
    /\ rerunCalls' = frame.rerunCalls
    /\ posts' = frame.posts
    /\ invoked' = frame.invoked
    /\ lastHttp' = frame.lastHttp
    /\ finishes' = frame.finishes
    /\ rerunResponse' = frame.rerunResponse
    /\ evalMessages' = frame.evalMessages
    /\ rerunMessages' = frame.rerunMessages
    /\ rerunTools' = frame.rerunTools

\* the interpreter switches to the other call
Switch ==
    /\ parked' = Locals
    /\ Resume(parked)
    /\ running' = 3 - running
    /\ UNCHANGED <<persona, storeVars>>

\* the message of each of the two callers
MessageOf(caller) == IF caller = 1 THEN "Hello" ELSE "My email is test@example.com"

\* the tool round a concurrent turn can ask for
ConcBatches == { << ToolCall("call_2", "record_unknown_question", ArgsQuestion) >> }

ConcNext ==
    \/ \E h \in Histories : h = <<>> /\ chat(MessageOf(running), h)
    \/ \E c \in Contents : LLMStop(c, "stop")
    \/ \E b \in ConcBatches : Rounds = 0 /\ LLMToolCalls(b)
    \/ HandleToolCall("2xx")
    \/ \E a \in BOOLEAN, f \in Feedbacks : evaluate(a, f)
    \/ \E c \in Contents : rerun(c)
    \/ Switch

ConcSpec == Init /\ [][ConcNext]_vars

(***************************************************************************)
(* Properties of the chat turn.                                            *)
(***************************************************************************)
Rejected == evaluation.present /\ ~evaluation.is_acceptable
Accepted == evaluation.present /\ evaluation.is_acceptable

\* C1: in a turn whose evaluation is not acceptable the evaluator has run
\* exactly once, exactly one regeneration call is issued (none while the turn
\* waits for it, one once the turn is over), and a returned reply is the
\* content of that regeneration call.
C1_RejectionRegeneratesOnce ==
    Rejected =>
        /\ pc \in {"rerun", "returned", "raised"}
        /\ evalCalls = 1
        /\ (pc = "rerun" => rerunCalls = 0 /\ retval = NoReply)
        /\ (pc \in {"returned", "raised"} => rerunCalls = 1)
        /\ (pc = "returned" => retval = rerunResponse)

\* a rejected turn that returned the regenerated content, here a content
\* equal to the rejected candidate's
C1_Witness ==
    /\ pc = "returned"
    /\ Rejected
    /\ rerunCalls = 1
    /\ retval = response.content
    /\ Rounds = 1

\* C2: when the first completion stops normally and the evaluation is
\* acceptable, the turn has returned the completion's content after exactly
\* one completion call and one evaluation call, with no regeneration call.
C2_AcceptedFirstCompletion ==
    (Len(finishes) >= 1 /\ finishes[1] = "stop" /\ Accepted) =>
        /\ pc = "returned"
        /\ llmCalls = 1
        /\ evalCalls = 1
        /\ rerunCalls = 0
        /\ retval = response.content
        /\ retval \in Contents

C2_Witness ==
    /\ pc = "returned"
    /\ finishes = << "stop" >>
    /\ Accepted
    /\ retval = "Reply"
    /\ history # <<>>

\* the last n entries of the working conversation answer, one each and in
\* request order, the n tool calls of the last completion
RoundAnswered ==
    LET n == Len(response.tool_calls)
        L == Len(messages)
    IN  /\ L >= BaseLen + n + 1
        /\ messages[L - n].role = "assistant"
        /\ messages[L - n].tool_calls = response.tool_calls
        /\ \A i \in 1..n :
              /\ messages[L - n + i].role = "tool"
              /\ messages[L - n + i].tool_call_id = response.tool_calls[i].id

\* C3: a step that issues a completion call after a completion that asked
\* for tools starts from a conversation to which one tool entry per
\* requested ToolInvocation has been appended, in request order, each with
\* the tool_call_id of its invocation.
C3_ToolEntriesBeforeNextCall ==
    [][ (llmCalls' > llmCalls /\ response.finish_reason = "tool_calls")
            => RoundAnswered ]_vars

\* a second completion call was issued after a round of two tool calls whose
\* identifiers are not in pool order
C3_Witness ==
    /\ llmCalls = 2
    /\ pc = "evaluate"
    /\ Len(messages) = BaseLen + 3
    /\ messages[BaseLen + 2].tool_call_id = "call_2"
    /\ messages[BaseLen + 3].tool_call_id = "call_1"

C4_ToolLoopEnds ==
    <>(pc \in {"evaluate", "rerun", "returned", "raised"})

Current == response.tool_calls[idx]

\* C5: an iteration of handle_tool_calls on a ToolInvocation whose name is
\* not one of the two registry tools does not raise and produces a tool
\* entry with content {} for that invocation.
C5_UnknownToolYieldsEmptyObject ==
    [][ (pc = "tools" /\ Current.name \notin tools) =>
            /\ pc' # "raised"
            /\ LET e == IF pc' = "tools" THEN results'[Len(results')]
                        ELSE messages'[Len(messages')]
               IN  /\ e.role = "tool"
                   /\ e.content = "{}"
                   /\ e.tool_call_id = Current.id ]_vars

\* C6: every callable executed through tool dispatch is record_user_details
\* or record_unknown_question.
C6_RegistryIsClosed ==
    \A i \in 1..Len(invoked) : invoked[i] \in tools

\* C7: an iteration of handle_tool_calls on a ToolInvocation whose arguments
\* are not JSON raises JSONDecodeError out of chat: the working conversation
\* gets neither the round's assistant message nor any tool entry, nothing is
\* handed back by handle_tool_calls, and a turn that raised has returned no
\* reply.
C7_MalformedArgumentsAbortTurn ==
    /\ [][ (pc = "tools" /\ Current.arguments = ArgsMalformed) =>
              /\ pc' = "raised"
              /\ error' = "JSONDecodeError"
              /\ messages' = messages
              /\ results' = <<>>
              /\ retval' = NoReply ]_vars
    /\ [](pc = "raised" => retval = NoReply /\ ~ENABLED Next)

\* the second tool call of a batch was malformed: the first one's notification
\* was sent, and the conversation holds no entry of the batch
C7_Witness ==
    /\ pc = "raised"
    /\ error = "JSONDecodeError"
    /\ idx = 2
    /\ Len(posts) = 1
    /\ Len(messages) = BaseLen

\* C8: once a completion call, the evaluator call or the regeneration call
\* has failed, chat has raised without a reply, and no step issues another
\* external call or returns a reply.
C8_ExternalFailurePropagates ==
    /\ [](error = "APIError" => pc = "raised" /\ retval = NoReply)
    /\ [][ error = "APIError" =>
              /\ llmCalls' = llmCalls
              /\ evalCalls' = evalCalls
              /\ rerunCalls' = rerunCalls
              /\ posts' = posts
              /\ retval' = NoReply ]_vars

\* the failure of each kind of call is reached: here the regeneration call
\* failed after a tool round
C8_Witness ==
    /\ error = "APIError"
    /\ rerunCalls = 1
    /\ evalCalls = 1
    /\ llmCalls = 2
    /\ Len(posts) = 1

\* C9: an iteration of handle_tool_calls whose notification is answered with
\* a non-2xx status or fails in transport does not raise, and the registry
\* tool's entry reports {"status": "success"}.
C9_DeliveryFailureNotSurfaced ==
    [][ (pc = "tools" /\ Current.name \in tools /\ Len(posts') > Len(posts)
            /\ lastHttp' \in {"non2xx", "transport_error"}) =>
            /\ pc' # "raised"
            /\ LET e == IF pc' = "tools" THEN results'[Len(results')]
                        ELSE messages'[Len(messages')]
               IN  e.content = "{\"status\": \"success\"}" ]_vars

(***************************************************************************)
(* Notifications per turn.                                                 *)
(***************************************************************************)
RECURSIVE CountIn(_, _)
\* the tool calls of a batch whose name is in the set
CountIn(batch, names) ==
    IF batch = <<>> THEN 0
    ELSE (IF Head(batch).name \in names THEN 1 ELSE 0) + CountIn(Tail(batch), names)

RECURSIVE SumCountIn(_, _)
SumCountIn(S, names) ==
    IF S = {} THEN 0
    ELSE LET i == CHOOSE j \in S : TRUE
         IN CountIn(messages[i].tool_calls, names) + SumCountIn(S \ {i}, names)

\* ToolInvocations handle_tool_calls has started on, over the whole turn
Started == Requested + (IF pc \in {"tools", "raised"} THEN idx ELSE 0)

\* C10 as stated: a turn that returned a reply sent as many POSTs as the LLM
\* requested ToolInvocations.
C10_OnePostPerInvocation ==
    pc = "returned" => Len(posts) = Requested

\* C10 as amended: a turn that returned a reply sent one POST per requested
\* ToolInvocation whose name is bound to a notifying function of the module
\* (record_user_details, record_unknown_question, push) and none for the
\* others; at no point are there more POSTs than invocations started.
C10_OnePostPerNotifyingInvocation ==
    /\ Len(posts) <= Started
    /\ pc = "returned" =>
          Len(posts) = SumCountIn(RoundStarts, {"record_user_details",
                                                "record_unknown_question", "push"})

\* a returned turn with two requested invocations, one of an unknown tool
C10_Witness ==
    /\ pc = "returned"
    /\ Requested = 2
    /\ Len(posts) = 1
    /\ invoked = << "record_unknown_question" >>

(***************************************************************************)
(* record_unknown_question called repeatedly; lookup and decoding order.   *)
(***************************************************************************)
\* the text record_unknown_question posts for the question of ArgsQuestion
QuestionText == NotificationText("record_unknown_question", json_loads(ArgsQuestion))

\* C11: every call of record_unknown_question, whatever was posted before
\* (the same question included), sends exactly one notification with the
\* question and returns {"status": "success"}.
C11_NoDeduplication ==
    [][ (pc = "tools" /\ Current.name = "record_unknown_question"
            /\ Current.arguments = ArgsQuestion) =>
            /\ posts' = Append(posts, QuestionText)
            /\ pc' # "raised"
            /\ LET e == IF pc' = "tools" THEN results'[Len(results')]
                        ELSE messages'[Len(messages')]
               IN  e.content = "{\"status\": \"success\"}" ]_vars

\* C11 for the calls that return: each call posts once more, also when the
\* same question was posted before, and a call that returns reports success
C11_EveryCallPosts ==
    [][ (pc = "tools" /\ Current.name = "record_unknown_question"
            /\ Current.arguments = ArgsQuestion) =>
            /\ posts' = Append(posts, QuestionText)
            /\ (pc' # "raised" =>
                  LET e == IF pc' = "tools" THEN results'[Len(results')]
                           ELSE messages'[Len(messages')]
                  IN  e.content = "{\"status\": \"success\"}") ]_vars

\* the same question recorded twice in one turn: two notifications
C11_TwoPosts ==
    /\ pc = "llm"
    /\ posts = << QuestionText, QuestionText >>
    /\ messages[Len(messages)].content = "{\"status\": \"success\"}"
    /\ messages[Len(messages) - 1].content = "{\"status\": \"success\"}"

\* C20: an iteration of handle_tool_calls on a ToolInvocation whose name is
\* bound to nothing in the module yields the empty result and does not
\* raise, whatever its arguments are.
C20_LookupBeforeDecode ==
    [][ (pc = "tools" /\ Current.name \notin ModuleGlobals) =>
            /\ pc' # "raised"
            /\ error' = NoError
            /\ LET e == IF pc' = "tools" THEN results'[Len(results')]
                        ELSE messages'[Len(messages')]
               IN  e.content = json_dumps(PyEmptyDict) ]_vars

(***************************************************************************)
(* What the evaluator and the regeneration step are given.                 *)
(***************************************************************************)
\* an assistant message asking for tools, or a tool-role entry
ToolTraffic(e) == e.role = "tool" \/ e.tool_calls # <<>>

\* the history substituted into the evaluator's user prompt
EvaluatedHistory == evalMessages[2].content[2]

\* the entries of rerun's messages between its system and its user entry
RerunHistory == SubSeq(rerunMessages, 2, Len(rerunMessages) - 1)

\* C12: once evaluate has been called, the history it was given is the
\* caller's history, entry for entry, with no assistant tool-call message
\* and no tool-role entry; once rerun has been called, the same holds for
\* the history inside the messages it sends.
C12_OriginalHistoryOnly ==
    /\ evalCalls > 0 =>
          /\ EvaluatedHistory = history
          /\ \A i \in 1..Len(EvaluatedHistory) : ~ToolTraffic(EvaluatedHistory[i])
    /\ rerunCalls > 0 =>
          /\ RerunHistory = history
          /\ \A i \in 1..Len(RerunHistory) : ~ToolTraffic(RerunHistory[i])

\* a turn with a history, whose working conversation holds tool traffic,
\* evaluated and regenerated
C12_Witness ==
    /\ pc = "returned"
    /\ history # <<>>
    /\ \E i \in 1..Len(messages) : ToolTraffic(messages[i])
    /\ evalCalls > 0
    /\ rerunCalls > 0
    /\ RerunHistory = history

(***************************************************************************)
(* Properties of QuestionDB.                                               *)
(***************************************************************************)
\* the last operation was op and it returned
Returned(op) == dbLast.op = op /\ dbLast.raised = NoError

\* the step is a call of op that returns
Returns(op) == dbLast'.op = op /\ dbLast'.raised = NoError

\* C13: a delete_question(id) that returns, returns true iff the table held
\* a row with that identifier, and leaves the table without that row and
\* with every other row as it was; an identifier that was generated and is
\* not in the table never comes back, so that a later delete_question(id)
\* returns false.
C13_DeleteExactlyThatRow ==
    [][ /\ Returns("delete_question") =>
             LET id == dbLast'.args[1]
             IN  /\ dbLast'.ret = (id \in Ids(table))
                 /\ id \notin Ids(table')
                 /\ table' = SelectSeq(table, LAMBDA r : r.id # id)
                 /\ Len(table') = Len(table) - (IF id \in Ids(table) THEN 1 ELSE 0)
        /\ \A i \in 1..idSeq : i \notin Ids(table) => i \notin Ids(table') ]_vars

\* delete_question has returned true, removing one row of several
C13_Witness ==
    /\ Returned("delete_question")
    /\ dbLast.ret = TRUE
    /\ dbLast.args[1] \notin Ids(table)
    /\ table # <<>>

\* C14: an update_notes(id, notes) that returns, returns true iff the table
\* held a row with that identifier, changes the notes of that row and
\* nothing else (so nothing at all when it returns false); and no step of
\* QuestionDB changes question_text, category, asked_by or created_at of a
\* row that stays in the table.
C14_OnlyNotesChange ==
    [][ /\ Returns("update_notes") =>
             LET id == dbLast'.args[1]
                 notes == dbLast'.args[2]
             IN  /\ dbLast'.ret = (id \in Ids(table))
                 /\ Len(table') = Len(table)
                 /\ \A i \in 1..Len(table) :
                       table'[i] = IF table[i].id = id
                                   THEN [table[i] EXCEPT !.notes = notes]
                                   ELSE table[i]
                 /\ (dbLast'.ret = FALSE => table' = table)
        /\ \A i \in 1..Len(table), j \in 1..Len(table') :
              table[i].id = table'[j].id =>
                 /\ table'[j].question_text = table[i].question_text
                 /\ table'[j].category = table[i].category
                 /\ table'[j].asked_by = table[i].asked_by
                 /\ table'[j].created_at = table[i].created_at ]_vars

\* update_notes has returned true on one row of several, the others keeping
\* their notes
C14_Witness ==
    /\ Returned("update_notes")
    /\ dbLast.ret = TRUE
    /\ \E i, j \in 1..Len(table) :
          /\ table[i].id = dbLast.args[1]
          /\ table[i].notes = dbLast.args[2]
          /\ table[j].notes = NULL

\* the position of the first event e in ev, 0 without one
Position(ev, e) ==
    IF \E i \in 1..Len(ev) : ev[i] = e
    THEN CHOOSE i \in 1..Len(ev) : ev[i] = e /\ \A j \in 1..(i - 1) : ev[j] # e
    ELSE 0

C16_IdentifiersDistinct ==
    [][ /\ \A i, j \in 1..Len(table') : i # j => table'[i].id # table'[j].id
        /\ Returns("add_question") =>
              /\ Len(table') = Len(table) + 1
              /\ SubSeq(table', 1, Len(table)) = table
              /\ table'[Len(table')].id = dbLast'.ret
              /\ table'[Len(table')].question_text = dbLast'.args[1]
              /\ dbLast'.ret \notin Ids(table) ]_vars

\* add_question has returned an identifier that is not the number of rows:
\* rows were deleted or inserts failed before it
C16_Witness ==
    /\ Returned("add_question")
    /\ Len(table) >= 2
    /\ dbLast.ret > Len(table)
    /\ table[Len(table)].id = dbLast.ret

\* the rows of tbl with category c, a row without category having c = NULL
WithCategory(tbl, c) == { i \in 1..Len(tbl) : tbl[i].category = c }

\* C17: get_category_stats returns one entry per distinct category of the
\* table (the rows without category being one category), no category
\* twice, each with the number of rows of that category, the counts never
\* increasing along the result; for rows of categories A, A, B it returns
\* [(A, 2), (B, 1)].
C17_CategoryStats ==
    Returned("get_category_stats") =>
       LET rs == dbLast.ret
       IN  /\ { rs[i].category : i \in 1..Len(rs) }
                = { table[j].category : j \in 1..Len(table) }
           /\ \A i, j \in 1..Len(rs) : i # j => rs[i].category # rs[j].category
           /\ \A i \in 1..Len(rs) :
                 rs[i].count = Cardinality(WithCategory(table, rs[i].category))
           /\ \A i, j \in 1..Len(rs) : i < j => rs[i].count >= rs[j].count
           /\ (/\ Len(table) = 3
               /\ Cardinality(WithCategory(table, "A")) = 2
               /\ Cardinality(WithCategory(table, "B")) = 1) =>
                 rs = << [category |-> "A", count |-> 2],
                         [category |-> "B", count |-> 1] >>

\* get_category_stats on rows of categories A, A, B
C17_Witness ==
    /\ Returned("get_category_stats")
    /\ Len(table) = 3
    /\ dbLast.ret = << [category |-> "A", count |-> 2],
                       [category |-> "B", count |-> 1] >>

\* the result rs holds each of the rows of S once, newest first
ExactlyNewestFirst(rs, S) ==
    /\ { rs[i] : i \in 1..Len(rs) } = S
    /\ Len(rs) = Cardinality(S)
    /\ \A i, j \in 1..Len(rs) : i < j => rs[i].created_at >= rs[j].created_at

\* C18: get_by_category(category) returns exactly the rows of the table
\* whose category is the argument, newest first, for every category a row
\* can have, the absent category (NULL) included.
C18_ExactCategoryMatch ==
    Returned("get_by_category") =>
       ExactlyNewestFirst(dbLast.ret,
                          { table[i] : i \in WithCategory(table, dbLast.args[1]) })

\* C18 as the code has it: for a category that is not NULL, exactly the
\* rows of that category, newest first; for NULL as the argument, no row.
C18_ExactMatchOfNamedCategory ==
    Returned("get_by_category") =>
       IF dbLast.args[1] # NULL
       THEN ExactlyNewestFirst(dbLast.ret,
                               { table[i] : i \in WithCategory(table, dbLast.args[1]) })
       ELSE dbLast.ret = <<>>

\* get_by_category("A") on a table with two rows of category A created at
\* different times, and rows of another category and of none
C18_Witness ==
    /\ Returned("get_by_category")
    /\ dbLast.args[1] = "A"
    /\ Len(dbLast.ret) = 2
    /\ dbLast.ret[1].created_at > dbLast.ret[2].created_at
    /\ \E i \in 1..Len(table) : table[i].category = NULL

(***************************************************************************)
(* Two chat calls at once.                                                 *)
(***************************************************************************)
\* what a call that returned returns when it runs alone, from the
\* completions it was given: the content of rerun's completion if its
\* evaluation rejected the candidate, else the content of its last completion
Alone(frame) ==
    IF ~frame.evaluation.is_acceptable THEN frame.rerunResponse
    ELSE frame.response.content

\* the working conversation, candidate reply and evaluation of a call are
\* its own
OwnTurn(frame, caller) ==
    /\ frame.pc # "idle" =>
          /\ frame.message = MessageOf(caller)
          /\ Len(frame.messages) >= Len(InitialMessages(frame.message, frame.history))
          /\ SubSeq(frame.messages, 1,
                    Len(InitialMessages(frame.message, frame.history)))
                = InitialMessages(frame.message, frame.history)
    /\ (frame.pc \in {"evaluate", "rerun"} \/
           (frame.pc = "returned" /\ frame.evaluation.is_acceptable)) =>
          frame.reply = frame.response.content
    /\ frame.pc = "returned" => frame.retval = Alone(frame)
    /\ frame.pc = "rerun" => ~frame.evaluation.is_acceptable

\* C19: under every interleaving of two chat calls on one instance, each
\* call's working conversation, candidate reply and evaluation are its own,
\* a call that returned has returned the reply it returns alone on the
\* completions it was given, no step of one call changes the locals of the
\* other, and the persona is never written.
C19_ConcurrentTurnsIndependent ==
    /\ [](OwnTurn(Locals, running) /\ OwnTurn(parked, 3 - running))
    /\ [][ /\ persona' = persona
           /\ running' = running => parked' = parked
           /\ running' # running => (parked' = Locals /\ Locals' = parked) ]_vars

\* both calls have returned, with different replies, one of them
\* regenerated after a tool round, the other accepted
C19_Witness ==
    /\ pc = "returned"
    /\ parked.pc = "returned"
    /\ retval # parked.retval
    /\ parked.rerunCalls = 1
    /\ Len(parked.posts) = 1
    /\ rerunCalls = 0
    /\ parked.llmCalls = 2

(***************************************************************************)
(* The working conversation across the rounds of the loop.                 *)
(***************************************************************************)
\* msgs opens with the system entry, the history in order and the user
\* message
OpensWithContext(msgs) ==
    /\ Len(msgs) >= BaseLen
    /\ msgs[1] = Msg("system", system_prompt)
    /\ SubSeq(msgs, 2, BaseLen - 1) = history
    /\ msgs[BaseLen] = Msg("user", message)

\* position i of msgs holds an assistant tool-call message followed by one
\* tool entry per call it requests, in order, and then by the next round or
\* by nothing
RoundAt(msgs, i) ==
    LET n == Len(msgs[i].tool_calls)
    IN  /\ msgs[i].role = "assistant"
        /\ i + n <= Len(msgs)
        /\ \A k \in 1..n :
              /\ msgs[i + k].role = "tool"
              /\ msgs[i + k].tool_call_id = msgs[i].tool_calls[k].id
        /\ i + n < Len(msgs) => msgs[i + n + 1].role = "assistant"

\* every tool entry of msgs answers a call of the nearest assistant message
\* before it, with only tool entries in between
ToolEntriesRequested(msgs) ==
    \A p \in (BaseLen + 1)..Len(msgs) :
       msgs[p].role = "tool" =>
          \E i \in (BaseLen + 1)..(p - 1) :
             /\ msgs[i].role = "assistant"
             /\ p - i <= Len(msgs[i].tool_calls)
             /\ msgs[i].tool_calls[p - i].id = msgs[p].tool_call_id
             /\ \A q \in (i + 1)..p : msgs[q].role = "tool"

RoundsInOrder(msgs) ==
    /\ OpensWithContext(msgs)
    /\ Len(msgs) > BaseLen => msgs[BaseLen + 1].role = "assistant"
    /\ \A i \in (BaseLen + 1)..Len(msgs) :
          /\ msgs[i].role \in {"assistant", "tool"}
          /\ msgs[i].role = "assistant" => RoundAt(msgs, i)
    /\ ToolEntriesRequested(msgs)

\* C21: the conversation a step of the loop sends to the LLM is the system
\* entry, the history, the user message and then the completed rounds, each
\* the assistant's tool-call message followed at once by its tool entries;
\* during a turn the conversation only grows at its end; every tool entry
\* comes after the assistant message that requested its tool_call_id.
C21_ConversationShape ==
    [][ /\ llmCalls' > llmCalls => RoundsInOrder(messages)
        /\ pc # "idle" =>
              /\ Len(messages') >= Len(messages)
              /\ SubSeq(messages', 1, Len(messages)) = messages ]_vars

\* a third completion call on a conversation with a history and two rounds
C21_Witness ==
    /\ llmCalls = 3
    /\ history # <<>>
    /\ Rounds = 2
    /\ Len(messages) = BaseLen + 4
    /\ RoundsInOrder(messages)

(***************************************************************************)
(* The caller's history list.                                              *)
(***************************************************************************)
\* C22: no step of a chat turn changes the caller's history list: from the
\* call to the exit, reply returned or exception raised, whatever the
\* rounds and with or without regeneration, it has the entries it had when
\* chat was called, in the same order.
C22_HistoryNotMutated ==
    [][ pc # "idle" => history' = history ]_vars

\* a turn called with a history has returned after a tool round and a
\* regeneration, its history list as supplied
C22_Witness ==
    /\ pc = "returned"
    /\ history \in Histories
    /\ history # <<>>
    /\ Rounds >= 1
    /\ rerunCalls = 1
    /\ SubSeq(messages, 2, BaseLen - 1) = history

(***************************************************************************)
(* The regeneration call.                                                  *)
(***************************************************************************)
\* C23: once the evaluator has rejected the candidate, no step of the turn
\* invokes a tool, sends a notification or calls the loop's completion
\* again, and regeneration is one call at most; the call rerun issues
\* advertises no tools, and its conversation is the system prompt extended
\* with the rejected answer and the feedback, then the caller's history,
\* then the user message, with no entry of the turn's tool rounds.
C23_RegenerationWithoutTools ==
    [][ /\ Rejected =>
              /\ posts' = posts
              /\ invoked' = invoked
              /\ llmCalls' = llmCalls
              /\ evalCalls' = evalCalls
              /\ rerunCalls' <= 1
              /\ pc' \notin {"llm", "tools"}
        /\ rerunCalls' > rerunCalls =>
              /\ Rejected
              /\ rerunTools' = {}
              /\ rerunMessages' =
                    << Msg("system",
                           << system_prompt, "## Your attempted answer:",
                              response.content, "## Reason for rejection:",
                              evaluation.feedback >>) >>
                    \o history \o << Msg("user", message) >>
              /\ \A i \in 1..Len(rerunMessages') : ~ToolTraffic(rerunMessages'[i]) ]_vars

\* a candidate reached after a tool round that sent a notification was
\* rejected and regenerated
C23_Witness ==
    /\ pc = "returned"
    /\ Rejected
    /\ rerunCalls = 1
    /\ rerunTools = {}
    /\ Rounds >= 1
    /\ posts # <<>>
    /\ history # <<>>
    /\ Len(rerunMessages) = BaseLen

(***************************************************************************)
(* A batch of tool calls, one at a time.                                   *)
(***************************************************************************)
\* the invocations of the batch under way that came before the current one
Earlier == SubSeq(response.tool_calls, 1, idx - 1)

\* POSTs sent for the completed rounds and for the earlier invocations of
\* the batch under way: one per invocation that called a function of the
\* module
SentBefore ==
    SumCountIn(RoundStarts, ModuleFunctions) + CountIn(Earlier, ModuleFunctions)

\* C24: handle_tool_calls takes the invocations of a batch one at a time in
\* request order, each step dispatching the invocation at the loop's
\* position and keeping its tool entry at that position of the results;
\* when invocation i raises, the notifications of invocations 1..i-1 have
\* been sent and their results are lost, nothing of the batch (assistant
\* message, tool entries) is in the working conversation, and no later
\* invocation is executed: the turn takes no further step.
C24_BatchSequentialNotAtomic ==
    [][ /\ pc = "tools" =>
              /\ Len(results) = idx - 1
              /\ \A k \in 1..(idx - 1) :
                    results[k].tool_call_id = response.tool_calls[k].id
              /\ Len(posts) = SentBefore
              /\ Len(posts') <= Len(posts) + 1
              /\ Len(invoked') <= Len(invoked) + 1
              /\ Rounds = llmCalls - 1
        /\ (pc = "tools" /\ pc' = "tools") =>
              /\ idx' = idx + 1
              /\ results'[idx].tool_call_id = Current.id
              /\ messages' = messages
        /\ (pc = "tools" /\ pc' = "raised") =>
              /\ messages' = messages
              /\ Cardinality({ p \in (BaseLen + 1)..Len(messages') :
                                 messages'[p].role = "assistant" }) = llmCalls - 1
              /\ Len(messages') = BaseLen + Rounds + Requested
              /\ SubSeq(posts', 1, Len(posts)) = posts
              /\ Len(posts') > Len(posts) => error' = "ConnectionError"
              /\ idx' = idx
        /\ pc = "raised" => FALSE ]_vars

\* the second invocation of a batch raised on malformed arguments after the
\* first had sent its notification
C24_Witness ==
    /\ pc = "raised"
    /\ error = "JSONDecodeError"
    /\ idx = 2
    /\ Len(response.tool_calls) = 2
    /\ Len(posts) = 1
    /\ invoked = << "record_user_details" >>
    /\ Len(messages) = BaseLen

====
